---- MODULE Spec2Model ----
(***************************************************************************)
(* The npm feed followers: couch.Follower (src/couch/replicate.go), which  *)
(* follows a CouchDB _changes feed with a sequence cursor, and rss.Follower*)
(* (src/rss/poll.go), which follows an RSS window with a "latest item"     *)
(* cursor.  Both publish Results on a buffered channel from one polling    *)
(* goroutine started by Connect.                                           *)
(*                                                                         *)
(* One behaviour follows one Follower value: NewFollower, the builder      *)
(* calls, Connect, the goroutine's steps, the ticker, the caller's context *)
(* and the consumer of the channel.                                        *)
(***************************************************************************)
EXTENDS Integers, Sequences, FiniteSets, TLC

VARIABLES
    kind,       \* which package's NewFollower built the value: "couch" | "rss"
    upstream,   \* what the registry is doing: "quiet" | "backlog"
    Sequence,   \* couch.Follower.Sequence (atomic.Uint64)
    latest,     \* rss.Follower.latest: <<>> for nil, <<item>> for a pointer to item
    pc,         \* where the Connect call / its goroutine stands
    returned,   \* Connect has handed the channel to its caller
    ctxDone,    \* the caller's context is cancelled
    out,        \* buffer of the channel made by Connect
    closed,     \* close(out) has run
    pending,    \* what fetch() still has to offer: the error, or changes[i:]
    tick,       \* ticker.C holds a tick
    since,      \* the since parameter of the latest _changes request
    outcome,    \* how the latest getChanges call ended: "none" | "ok" | "fail"
    wire,       \* the latest answer of the upstream to this Connect call
    obs,        \* observations of the current Connect call (history)
    nFetch,     \* getChanges calls made so far (bounded by MaxFetches)
    nConnect,   \* Connect calls made so far (bounded by MaxConnects)
    lastRecv,   \* the tag of the Result the consumer received last from this channel
    nRecv,      \* how many Results the consumer received from this channel
    second,     \* the goroutine of a Connect call made while the first one runs
    sm,         \* rss.Follower.sm (sync.Mutex): TRUE while it is locked
    feed,       \* the items of the upstream RSS feed, oldest first ("feed" upstream)
    polled      \* what the polls of that feed returned so far (history)

vars == <<kind, upstream, Sequence, latest, pc, returned, ctxDone, out, closed, pending,
          tick, since, outcome, wire, obs, nFetch, nConnect, lastRecv, nRecv, second, sm, feed, polled>>

(***************************************************************************)
(* Bounds of the model.                                                    *)
(***************************************************************************)
\* largest sequence number the upstream reports (update_seq, last_seq)
MaxSeq == 2
\* length of the longest _changes batch; above the channel's capacity
MaxBatch == 11
\* getChanges calls per behaviour
MaxFetches == 2
\* Connect calls per behaviour
MaxConnects == 2
\* number of distinct titles of the RSS items a poll may return
MaxTitle == 2
\* length of the longest RSS window a poll may return
MaxWindow == 2
\* the longest window of the feed in SpecRss
MaxItems == 3

\* the longest RSS feed of the "feed" upstream
MaxFeed == 4

\* the polls made of the "feed" upstream
MaxPolls == 3

\* Follower.limit (50 unless WithLimit sets it), scaled down
limit == 2

\* make(chan Result, 10)
ChanCap == 10

Nil == "nil"

(***************************************************************************)
(* Errors.  An error is its chain, outermost first: fmt.Errorf with %w     *)
(* puts a message in front of the error it wraps, and errors.Is walks the  *)
(* chain.  A message carries the cursor that fmt.Errorf formatted into it  *)
(* ("sequence %v: ..."), or NoSeq when it formats none.                     *)
(***************************************************************************)
Msg(text, seq) == [text |-> text, seq |-> seq]

\* a message that formats no cursor
NoSeq == 0 - 1

ErrInvalidUpdateSequence == <<Msg("invalid update sequence", NoSeq)>>

ErrEmptyFeed == <<Msg("feed responded with 0 items", NoSeq)>>

\* the errors net/http and the decoders hand back; opaque to the followers
LibErr(what) == <<Msg(what, NoSeq)>>

\* fmt.Errorf("<text>: %w", err)
Errorf(text, seq, err) == <<Msg(text, seq)>> \o err

\* errors.Is(err, target), for a target that wraps nothing
ErrorsIs(err, target) == \E i \in 1..Len(err) : <<err[i]>> = target

(***************************************************************************)
(* Data.  A change or an item carries, beside the fields the followers     *)
(* read, its position in the response body it was decoded from (pos): the  *)
(* followers never read it, it is there to say in which order the upstream *)
(* listed what the consumer receives.                                      *)
(***************************************************************************)
\* CouchDocumentChange; ID 0 is the empty string
CouchDocumentChange(id, deleted, pos) == [ID |-> id, Deleted |-> deleted, pos |-> pos]

\* the zero value CouchDocumentChange{}
NoChange == CouchDocumentChange(0, FALSE, 0)

\* rss.Item; 0 is the empty string
Item(title, link, pubDate, creator, pos) ==
    [Title |-> title, Link |-> link, PubDate |-> pubDate, Creator |-> creator, pos |-> pos]

\* the zero value Item{}
NoItem == Item(0, 0, 0, 0, 0)

\* a nil error: the empty chain
NoError == <<>>

\* no tag: a Result that was never offered
NoTag == [batch |-> 0, idx |-> 0, n |-> 0]

\* couch.Result{Change: c, Error: e}
CouchResult(c, e) == [Change |-> c, Error |-> e, tag |-> NoTag]

\* rss.Result{FeedItem: i, Error: e}
RssResult(i, e) == [FeedItem |-> i, Error |-> e, tag |-> NoTag]

\* the change or item a Result carries
Payload(r) == IF kind = "couch" THEN r.Change ELSE r.FeedItem

\* the zero value of the payload
NoPayload == IF kind = "couch" THEN NoChange ELSE NoItem

\* slices.Reverse
Reverse(s) == [i \in 1..Len(s) |-> s[Len(s) + 1 - i]]

(***************************************************************************)
(* The upstream.  What a request may come back with: the call fails in the *)
(* transport (a network error, the fetch-scoped or client timeout, the     *)
(* context's cancellation), the status is not 200, the body does not       *)
(* decode, or the body decodes.  http.NewRequestWithContext is given a     *)
(* constant method and URL and the caller's context, and does not fail.    *)
(***************************************************************************)
\* a timeout stands for every failure of Client.Do that the caller did not
\* cause; the request carries a context derived from the caller's, so once that
\* is cancelled Client.Do may also fail with the context's error
\* the causes when fetch() calls cancel() at once instead of deferring it
TransportCauses_CancelEarly == {"deadline exceeded", "context canceled"}

TransportCauses ==
    {"deadline exceeded"} \cup (IF ctxDone THEN {"context canceled"} ELSE {})

Failure(status, cause) ==
    [status |-> status, cause |-> cause, update_seq |-> 0, results |-> <<>>, last_seq |-> 0]

\* no answer yet
NoResponse == Failure("none", Nil)

\* A quiet registry answers with at most one change and any sequence number,
\* and fails in every way; a registry with a backlog answers with MaxBatch
\* changes or none, its sequence number at MaxSeq, and fails by timing out.
FailedResponses ==
    {Failure("transport", c) : c \in TransportCauses}
        \cup (IF upstream = "quiet"
              THEN {Failure("status", Nil), Failure("decode", Nil)}
              ELSE {})

\* what the request in flight may come back with, out of the set S: a request
\* made with a context that was cancelled already fails in Client.Do
Answers(S) ==
    IF obs.late THEN {Failure("transport", "context canceled")} ELSE S

\* the lengths of the _changes batches the upstream sends
BatchLens == IF upstream = "quiet" THEN {0, 1} ELSE {0, MaxBatch}

\* the sequence numbers the upstream reports
SeqValues == IF upstream = "quiet" THEN 0..MaxSeq ELSE {MaxSeq}

\* whether the last change of a batch may be the deletion of a document
DeletedFlags == IF upstream = "quiet" THEN BOOLEAN ELSE {FALSE}

\* a batch of n changes, as the upstream lists them; del: the last is a deletion
Batch(n, del) == [i \in 1..n |-> CouchDocumentChange(i, del /\ i = n, i)]

\* GET <registry>/ : {"update_seq": u}; a body without the key decodes to 0
ColdResponses ==
    FailedResponses \cup
    {[status |-> "ok", cause |-> Nil, update_seq |-> u, results |-> <<>>, last_seq |-> 0] :
        u \in SeqValues}

\* GET <registry>/_changes?since=s : {"results": [...], "last_seq": l}; a body
\* without last_seq decodes to 0
ChangesResponses ==
    FailedResponses \cup
    {[status |-> "ok", cause |-> Nil, update_seq |-> 0, results |-> Batch(n, del),
      last_seq |-> l] :
        n \in BatchLens, del \in DeletedFlags, l \in SeqValues}

\* The RSS feed lists distinct items newest first: an item's title is the
\* order in which it was published, and a window holds at most MaxWindow items.
WindowOf(S) ==
    LET f == CHOOSE g \in [1..Cardinality(S) -> S] :
                 \A i, j \in 1..Cardinality(S) : i < j => g[i] > g[j]
    IN  [i \in 1..Cardinality(S) |-> Item(f[i], f[i], 1, 1, i)]

Windows == {WindowOf(S) : S \in {T \in SUBSET (1..MaxTitle) : Cardinality(T) <= MaxWindow}}

\* an item of the feed: a title, and one of the other fields perhaps not 1
Variant(t, v) ==
    Item(t, IF v = 2 THEN 2 ELSE 1, IF v = 3 THEN 2 ELSE 1, IF v = 4 THEN 2 ELSE 1, 0)

FeedItems == {Variant(t, v) : t \in 1..MaxTitle, v \in 1..4}

\* any channel of at most MaxItems items, in any order, repeats included
AnyWindows ==
    {[i \in 1..Len(w) |-> [w[i] EXCEPT !.pos = i]] :
        w \in UNION {[1..n -> FeedItems] : n \in 0..MaxItems}}

\* the i-th item ever appended to the feed: no two of them have the same
\* title, raw date and creator
FeedEntry(i) ==
    Item(((i - 1) % MaxTitle) + 1, 1, (((i - 1) \div MaxTitle) % 3) + 1,
         (((i - 1) \div (3 * MaxTitle)) % 2) + 1, 0)

\* ?descending=true&limit=N of the feed: its latest min(N, length) items,
\* the newest first
FeedWindow ==
    LET n == IF Len(feed) < limit THEN Len(feed) ELSE limit
    IN  [i \in 1..n |-> [feed[Len(feed) - i + 1] EXCEPT !.pos = i]]

\* no poll of the feed has returned without an error yet
NoPolls == [items |-> <<>>, first |-> NoSeq, last |-> NoSeq]

\* the history after a poll that returned items without an error: the items
\* returned so far, and the length of the feed at the first and at the latest
\* such poll
Polled(items) ==
    [items |-> polled.items \o items,
     first |-> IF polled.first = NoSeq THEN Len(feed) ELSE polled.first,
     last |-> Len(feed)]

\* GET <rss>?descending=true&limit=N : a channel of items, newest first
RssResponses ==
    FailedResponses \cup
    {[status |-> "ok", cause |-> Nil, update_seq |-> 0, results |-> w, last_seq |-> 0] :
        w \in IF upstream = "any" THEN AnyWindows
              ELSE IF upstream = "feed" THEN {FeedWindow}
              ELSE Windows}

(***************************************************************************)
(* couch.Follower: the two requests, as functions of the cursor and of     *)
(* what the upstream answered.  Each gives the error it returns (NoError   *)
(* for nil), the cursor it leaves and, for getChanges, the changes.        *)
(***************************************************************************)
\* coldStartSequence without the check for a zero update_seq
coldStartSequence_NoZeroCheck(seq, resp) ==
    CASE resp.status = "transport" ->
            [err |-> Errorf("doing request", NoSeq, LibErr(resp.cause)), seq |-> seq]
      [] resp.status = "status" ->
            [err |-> <<Msg("unexpected status", NoSeq)>>, seq |-> seq]
      [] resp.status = "decode" ->
            [err |-> Errorf("decoding body", NoSeq, LibErr("decode")), seq |-> seq]
      [] resp.status = "ok" ->
            [err |-> NoError, seq |-> resp.update_seq]

\* coldStartSequence without the Store of the update_seq it found
coldStartSequence_NoStore(seq, resp) ==
    CASE resp.status = "transport" ->
            [err |-> Errorf("doing request", NoSeq, LibErr(resp.cause)), seq |-> seq]
      [] resp.status = "status" ->
            [err |-> <<Msg("unexpected status", NoSeq)>>, seq |-> seq]
      [] resp.status = "decode" ->
            [err |-> Errorf("decoding body", NoSeq, LibErr("decode")), seq |-> seq]
      [] resp.status = "ok" /\ resp.update_seq = 0 ->
            [err |-> ErrInvalidUpdateSequence, seq |-> seq]
      [] resp.status = "ok" /\ resp.update_seq # 0 ->
            [err |-> NoError, seq |-> seq]

coldStartSequence(seq, resp) ==
    CASE resp.status = "transport" ->
            [err |-> Errorf("doing request", NoSeq, LibErr(resp.cause)), seq |-> seq]
      [] resp.status = "status" ->
            [err |-> <<Msg("unexpected status", NoSeq)>>, seq |-> seq]
      [] resp.status = "decode" ->
            [err |-> Errorf("decoding body", NoSeq, LibErr("decode")), seq |-> seq]
      [] resp.status = "ok" /\ resp.update_seq = 0 ->
            [err |-> ErrInvalidUpdateSequence, seq |-> seq]
      [] resp.status = "ok" /\ resp.update_seq # 0 ->
            [err |-> NoError, seq |-> resp.update_seq]

\* getChanges that returns the decoder's error as it is
getChanges_BareDecodeError(seq, resp) ==
    CASE resp.status = "transport" ->
            [changes |-> <<>>, seq |-> seq,
             err |-> Errorf("doing request", seq, LibErr(resp.cause))]
      [] resp.status = "status" ->
            [changes |-> <<>>, seq |-> seq,
             err |-> <<Msg("unexpected status", seq)>>]
      [] resp.status = "decode" ->
            [changes |-> <<>>, seq |-> seq, err |-> LibErr("decode")]
      [] resp.status = "ok" ->
            [changes |-> resp.results, seq |-> resp.last_seq, err |-> NoError]

\* getChanges with the cursor advanced only by a batch that holds changes
getChanges_SkipEmpty(seq, resp) ==
    CASE resp.status = "transport" ->
            [changes |-> <<>>, seq |-> seq,
             err |-> Errorf("doing request", seq, LibErr(resp.cause))]
      [] resp.status = "status" ->
            [changes |-> <<>>, seq |-> seq,
             err |-> <<Msg("unexpected status", seq)>>]
      [] resp.status = "decode" ->
            [changes |-> <<>>, seq |-> seq,
             err |-> Errorf("decoding body", seq, LibErr("decode"))]
      [] resp.status = "ok" ->
            [changes |-> resp.results, err |-> NoError,
             seq |-> IF resp.results = <<>> THEN seq ELSE resp.last_seq]

\* getChanges with the cursor stored before the body is known to decode
getChanges_StoreFirst(seq, resp) ==
    CASE resp.status = "transport" ->
            [changes |-> <<>>, seq |-> seq,
             err |-> Errorf("doing request", seq, LibErr(resp.cause))]
      [] resp.status = "status" ->
            [changes |-> <<>>, seq |-> seq,
             err |-> <<Msg("unexpected status", seq)>>]
      [] resp.status = "decode" ->
            [changes |-> <<>>, seq |-> resp.last_seq,
             err |-> Errorf("decoding body", resp.last_seq, LibErr("decode"))]
      [] resp.status = "ok" ->
            [changes |-> resp.results, seq |-> resp.last_seq, err |-> NoError]

\* getChanges that leaves the cursor of a batch for after its delivery
getChanges_StoreLater(seq, resp) ==
    CASE resp.status = "transport" ->
            [changes |-> <<>>, seq |-> seq,
             err |-> Errorf("doing request", seq, LibErr(resp.cause))]
      [] resp.status = "status" ->
            [changes |-> <<>>, seq |-> seq,
             err |-> <<Msg("unexpected status", seq)>>]
      [] resp.status = "decode" ->
            [changes |-> <<>>, seq |-> seq,
             err |-> Errorf("decoding body", seq, LibErr("decode"))]
      [] resp.status = "ok" ->
            [changes |-> resp.results,
             seq |-> IF resp.results = <<>> THEN resp.last_seq ELSE seq,
             err |-> NoError]

getChanges(seq, resp) ==
    CASE resp.status = "transport" ->
            [changes |-> <<>>, seq |-> seq,
             err |-> Errorf("doing request", seq, LibErr(resp.cause))]
      [] resp.status = "status" ->
            [changes |-> <<>>, seq |-> seq,
             err |-> <<Msg("unexpected status", seq)>>]
      [] resp.status = "decode" ->
            [changes |-> <<>>, seq |-> seq,
             err |-> Errorf("decoding body", seq, LibErr("decode"))]
      [] resp.status = "ok" ->
            [changes |-> resp.results, seq |-> resp.last_seq, err |-> NoError]

(***************************************************************************)
(* rss.Follower.                                                           *)
(***************************************************************************)
\* Item.Date: time.Parse(time.RFC1123, i.PubDate).  Of the raw strings, 1 and 3
\* are one instant written with two zone names ("GMT", "UTC"), 2 is another
Date(i) == IF i.PubDate = 3 THEN 1 ELSE i.PubDate

\* an Is that compares the parsed dates
Is_ByDate(i, other) ==
    IF i.Creator # other.Creator THEN FALSE
    ELSE IF i.Title # other.Title THEN FALSE
    ELSE IF Date(i) # Date(other) THEN FALSE
    ELSE TRUE

\* Item.Is
Is(i, other) ==
    IF i.Creator # other.Creator THEN FALSE
    ELSE IF i.Title # other.Title THEN FALSE
    ELSE IF i.PubDate # other.PubDate THEN FALSE
    ELSE TRUE

\* the loop without its break: the index of the last item that Is f.latest
truncateIndex_NoBreak(items, lat) ==
    IF lat # <<>> /\ \E k \in 1..Len(items) : Is(items[k], lat[1])
    THEN (CHOOSE k \in 1..Len(items) :
             /\ Is(items[k], lat[1])
             /\ \A j \in (k + 1)..Len(items) : ~Is(items[j], lat[1])) - 1
    ELSE Len(items)

\* truncateIndex initialised to 0: a cursor that is not found, or nil, keeps
\* nothing of the window
truncateIndex_FromZero(items, lat) ==
    IF lat # <<>> /\ \E k \in 1..Len(items) : Is(items[k], lat[1])
    THEN (CHOOSE k \in 1..Len(items) :
             /\ Is(items[k], lat[1])
             /\ \A j \in 1..(k - 1) : ~Is(items[j], lat[1])) - 1
    ELSE 0

\* a truncation that keeps the item that Is f.latest
truncateIndex_Inclusive(items, lat) ==
    IF lat # <<>> /\ \E k \in 1..Len(items) : Is(items[k], lat[1])
    THEN CHOOSE k \in 1..Len(items) :
             /\ Is(items[k], lat[1])
             /\ \A j \in 1..(k - 1) : ~Is(items[j], lat[1])
    ELSE Len(items)

\* the loop of getChanges that looks for f.latest: the index (from 0) of the
\* first item that Is f.latest, len(items) when there is none or latest is nil
truncateIndex(items, lat) ==
    IF lat # <<>> /\ \E k \in 1..Len(items) : Is(items[k], lat[1])
    THEN (CHOOSE k \in 1..Len(items) :
             /\ Is(items[k], lat[1])
             /\ \A j \in 1..(k - 1) : ~Is(items[j], lat[1])) - 1
    ELSE Len(items)

\* sync.Mutex: whether the mutex is held after the calls ops, made in order
RECURSIVE Mutex(_, _)
Mutex(held, ops) ==
    IF ops = <<>> THEN held ELSE Mutex(ops[1] = "Lock", Tail(ops))

\* sync.Mutex: the calls ops all return (a Lock of a held mutex never does)
RECURSIVE Acquirable(_, _)
Acquirable(held, ops) ==
    IF ops = <<>>
    THEN TRUE
    ELSE ~(held /\ ops[1] = "Lock") /\ Acquirable(ops[1] = "Lock", Tail(ops))

\* rssGetChanges that takes Items[0] for the cursor after slices.Reverse, which
\* reverses the head of Items in place
rssGetChanges_LatestAfterReverse(lat, resp) ==
    CASE resp.status = "transport" ->
            [sm |-> <<>>, items |-> <<>>, latest |-> lat,
             err |-> Errorf("doing request", NoSeq, LibErr(resp.cause))]
      [] resp.status = "status" ->
            [sm |-> <<>>, items |-> <<>>, latest |-> lat,
             err |-> <<Msg("unexpected status", NoSeq)>>]
      [] resp.status = "decode" ->
            [sm |-> <<>>, items |-> <<>>, latest |-> lat,
             err |-> Errorf("decoding body", NoSeq, LibErr("decode"))]
      [] resp.status = "ok" /\ Len(resp.results) = 0 ->
            [sm |-> <<>>, items |-> <<>>, latest |-> lat, err |-> ErrEmptyFeed]
      [] resp.status = "ok" /\ Len(resp.results) # 0 ->
            LET new == SubSeq(resp.results, 1, truncateIndex(resp.results, lat))
            IN  IF Len(new) = 0
                THEN [sm |-> <<>>, items |-> <<>>, latest |-> lat, err |-> NoError]
                ELSE [sm |-> <<"Lock", "Unlock">>,
                      items |-> Reverse(new), latest |-> <<Reverse(new)[1]>>,
                      err |-> NoError]

\* rssGetChanges that takes a window without items for a feed without news
rssGetChanges_EmptyIsQuiet(lat, resp) ==
    CASE resp.status = "transport" ->
            [sm |-> <<>>, items |-> <<>>, latest |-> lat,
             err |-> Errorf("doing request", NoSeq, LibErr(resp.cause))]
      [] resp.status = "status" ->
            [sm |-> <<>>, items |-> <<>>, latest |-> lat,
             err |-> <<Msg("unexpected status", NoSeq)>>]
      [] resp.status = "decode" ->
            [sm |-> <<>>, items |-> <<>>, latest |-> lat,
             err |-> Errorf("decoding body", NoSeq, LibErr("decode"))]
      [] resp.status = "ok" /\ Len(resp.results) = 0 ->
            [sm |-> <<>>, items |-> <<>>, latest |-> lat, err |-> NoError]
      [] resp.status = "ok" /\ Len(resp.results) # 0 ->
            LET new == SubSeq(resp.results, 1, truncateIndex(resp.results, lat))
            IN  IF Len(new) = 0
                THEN [sm |-> <<>>, items |-> <<>>, latest |-> lat, err |-> NoError]
                ELSE [sm |-> <<"Lock", "Unlock">>,
                      items |-> Reverse(new), latest |-> <<resp.results[1]>>,
                      err |-> NoError]

\* rssGetChanges without the final slices.Reverse
rssGetChanges_NoReverse(lat, resp) ==
    CASE resp.status = "transport" ->
            [sm |-> <<>>, items |-> <<>>, latest |-> lat,
             err |-> Errorf("doing request", NoSeq, LibErr(resp.cause))]
      [] resp.status = "status" ->
            [sm |-> <<>>, items |-> <<>>, latest |-> lat,
             err |-> <<Msg("unexpected status", NoSeq)>>]
      [] resp.status = "decode" ->
            [sm |-> <<>>, items |-> <<>>, latest |-> lat,
             err |-> Errorf("decoding body", NoSeq, LibErr("decode"))]
      [] resp.status = "ok" /\ Len(resp.results) = 0 ->
            [sm |-> <<>>, items |-> <<>>, latest |-> lat, err |-> ErrEmptyFeed]
      [] resp.status = "ok" /\ Len(resp.results) # 0 ->
            LET new == SubSeq(resp.results, 1, truncateIndex(resp.results, lat))
            IN  IF Len(new) = 0
                THEN [sm |-> <<>>, items |-> <<>>, latest |-> lat, err |-> NoError]
                ELSE [sm |-> <<"Lock", "Unlock">>,
                      items |-> new, latest |-> <<resp.results[1]>>,
                      err |-> NoError]

\* rssGetChanges that returns at poll.go:200, before the Unlock
rssGetChanges_ReturnLocked(lat, resp) ==
    CASE resp.status = "transport" ->
            [sm |-> <<>>, items |-> <<>>, latest |-> lat,
             err |-> Errorf("doing request", NoSeq, LibErr(resp.cause))]
      [] resp.status = "status" ->
            [sm |-> <<>>, items |-> <<>>, latest |-> lat,
             err |-> <<Msg("unexpected status", NoSeq)>>]
      [] resp.status = "decode" ->
            [sm |-> <<>>, items |-> <<>>, latest |-> lat,
             err |-> Errorf("decoding body", NoSeq, LibErr("decode"))]
      [] resp.status = "ok" /\ Len(resp.results) = 0 ->
            [sm |-> <<>>, items |-> <<>>, latest |-> lat, err |-> ErrEmptyFeed]
      [] resp.status = "ok" /\ Len(resp.results) # 0 ->
            LET new == SubSeq(resp.results, 1, truncateIndex(resp.results, lat))
            IN  IF Len(new) = 0
                THEN [sm |-> <<>>, items |-> <<>>, latest |-> lat, err |-> NoError]
                ELSE [sm |-> <<"Lock">>,
                      items |-> Reverse(new), latest |-> <<resp.results[1]>>,
                      err |-> NoError]

\* rssGetChanges that sets the cursor to nil when the body does not decode
rssGetChanges_ForgetOnDecodeError(lat, resp) ==
    CASE resp.status = "transport" ->
            [sm |-> <<>>, items |-> <<>>, latest |-> lat,
             err |-> Errorf("doing request", NoSeq, LibErr(resp.cause))]
      [] resp.status = "status" ->
            [sm |-> <<>>, items |-> <<>>, latest |-> lat,
             err |-> <<Msg("unexpected status", NoSeq)>>]
      [] resp.status = "decode" ->
            [sm |-> <<"Lock", "Unlock">>, items |-> <<>>, latest |-> <<>>,
             err |-> Errorf("decoding body", NoSeq, LibErr("decode"))]
      [] resp.status = "ok" /\ Len(resp.results) = 0 ->
            [sm |-> <<>>, items |-> <<>>, latest |-> lat, err |-> ErrEmptyFeed]
      [] resp.status = "ok" /\ Len(resp.results) # 0 ->
            LET new == SubSeq(resp.results, 1, truncateIndex(resp.results, lat))
            IN  IF Len(new) = 0
                THEN [sm |-> <<>>, items |-> <<>>, latest |-> lat, err |-> NoError]
                ELSE [sm |-> <<"Lock", "Unlock">>,
                      items |-> Reverse(new), latest |-> <<resp.results[1]>>,
                      err |-> NoError]

\* rssGetChanges that sets the cursor only while it is nil
rssGetChanges_CursorSetOnce(lat, resp) ==
    CASE resp.status = "transport" ->
            [sm |-> <<>>, items |-> <<>>, latest |-> lat,
             err |-> Errorf("doing request", NoSeq, LibErr(resp.cause))]
      [] resp.status = "status" ->
            [sm |-> <<>>, items |-> <<>>, latest |-> lat,
             err |-> <<Msg("unexpected status", NoSeq)>>]
      [] resp.status = "decode" ->
            [sm |-> <<>>, items |-> <<>>, latest |-> lat,
             err |-> Errorf("decoding body", NoSeq, LibErr("decode"))]
      [] resp.status = "ok" /\ Len(resp.results) = 0 ->
            [sm |-> <<>>, items |-> <<>>, latest |-> lat, err |-> ErrEmptyFeed]
      [] resp.status = "ok" /\ Len(resp.results) # 0 ->
            LET new == SubSeq(resp.results, 1, truncateIndex(resp.results, lat))
            IN  IF Len(new) = 0
                THEN [sm |-> <<>>, items |-> <<>>, latest |-> lat, err |-> NoError]
                ELSE [sm |-> <<"Lock", "Unlock">>,
                      items |-> Reverse(new),
                      latest |-> IF lat = <<>> THEN <<resp.results[1]>> ELSE lat,
                      err |-> NoError]

rssGetChanges(lat, resp) ==
    CASE resp.status = "transport" ->
            [sm |-> <<>>, items |-> <<>>, latest |-> lat,
             err |-> Errorf("doing request", NoSeq, LibErr(resp.cause))]
      [] resp.status = "status" ->
            [sm |-> <<>>, items |-> <<>>, latest |-> lat,
             err |-> <<Msg("unexpected status", NoSeq)>>]
      [] resp.status = "decode" ->
            [sm |-> <<>>, items |-> <<>>, latest |-> lat,
             err |-> Errorf("decoding body", NoSeq, LibErr("decode"))]
      [] resp.status = "ok" /\ Len(resp.results) = 0 ->
            [sm |-> <<>>, items |-> <<>>, latest |-> lat, err |-> ErrEmptyFeed]
      [] resp.status = "ok" /\ Len(resp.results) # 0 ->
            LET new == SubSeq(resp.results, 1, truncateIndex(resp.results, lat))
            IN  IF Len(new) = 0
                THEN [sm |-> <<>>, items |-> <<>>, latest |-> lat, err |-> NoError]
                ELSE [sm |-> <<"Lock", "Unlock">>,
                      items |-> Reverse(new), latest |-> <<resp.results[1]>>,
                      err |-> NoError]

(***************************************************************************)
(* State.                                                                  *)
(***************************************************************************)
\* what is known of a Connect call when it is made
NewObs(seq) ==
    [seq0 |-> seq,          \* the cursor when Connect was called
     meta |-> 0,            \* metadata requests issued
     coldSeq |-> NoSeq,     \* the update_seq a successful cold start found
     coldFailed |-> FALSE,  \* coldStartSequence returned an error
     changes |-> 0,         \* feed requests issued (_changes, rss)
     first |-> NoSeq,       \* the since of the first _changes request
     ticks |-> 0,           \* ticks the loop took from ticker.C
     failed |-> 0,          \* getChanges calls that returned an error
     batches |-> 0,         \* getChanges calls that gave fetch() Results to offer
     abandoned |-> FALSE,   \* an offer was given up for ctx.Done()
     lost |-> NoSeq,        \* the last_seq of the batch whose offer was given up
     prevLost |-> NoSeq,    \* the same, of the Connect call before this one
     late |-> FALSE,        \* the request in flight was made after ctx was cancelled
     closes |-> 0]          \* close(out) calls

\* no second Connect call was made
NoSecond == [pc |-> "none", since |-> NoSeq, ctxDone |-> FALSE]

\* NewFollower (of either package), with the caller's context not yet cancelled
Init ==
    /\ kind \in {"couch", "rss"}
    /\ upstream \in IF kind = "couch" THEN {"quiet", "backlog"} ELSE {"quiet"}
    /\ Sequence = 0
    /\ latest = <<>>
    /\ pc = "new"
    /\ returned = FALSE
    /\ ctxDone = FALSE
    /\ out = <<>>
    /\ closed = FALSE
    /\ pending = <<>>
    /\ tick = FALSE
    /\ since = NoSeq
    /\ outcome = "none"
    /\ wire = NoResponse
    /\ obs = NewObs(0)
    /\ nFetch = 0
    /\ nConnect = 0
    /\ lastRecv = NoTag
    /\ nRecv = 0
    /\ second = NoSecond
    /\ sm = FALSE
    /\ feed = <<>>
    /\ polled = NoPolls

\* the Results of one getChanges call, numbered as fetch() will offer them
Tagged(list, b) ==
    [i \in 1..Len(list) |->
        [list[i] EXCEPT !.tag = [batch |-> b, idx |-> i, n |-> Len(list)]]]

\* out := make(chan Result, 10), for a caller that reads the new channel
MakeChan ==
    /\ out' = <<>>
    /\ closed' = FALSE
    /\ pending' = <<>>
    /\ tick' = FALSE
    /\ lastRecv' = NoTag
    /\ nRecv' = 0
    /\ nConnect' = nConnect + 1
    /\ ctxDone' = IF pc = "new" THEN ctxDone ELSE FALSE

(***************************************************************************)
(* The caller.                                                             *)
(***************************************************************************)
\* Follower.Since, a builder call made before Connect
Since ==
    /\ kind = "couch"
    /\ pc = "new"
    /\ \E n \in SeqValues : Sequence' = n
    /\ UNCHANGED <<feed, polled, sm, second, kind, upstream, latest, pc, returned, ctxDone, out, closed, pending, tick,
                   since, outcome, wire, obs, nFetch, nConnect, lastRecv, nRecv>>

\* a Connect that asks for the metadata whatever the cursor is
CouchConnect_AlwaysCold ==
    /\ kind = "couch"
    /\ pc \in {"new", "done"}
    /\ nConnect < MaxConnects
    /\ MakeChan
    /\ pc' = "cold"
    /\ obs' = [NewObs(Sequence) EXCEPT !.meta = 1]
    /\ returned' = FALSE
    /\ outcome' = "none"
    /\ wire' = NoResponse
    /\ UNCHANGED <<feed, polled, sm, second, kind, upstream, Sequence, latest, since, nFetch>>

\* a Connect that cold-starts on the first call of a Follower only
CouchConnect_ColdOnce ==
    /\ kind = "couch"
    /\ pc \in {"new", "done"}
    /\ nConnect < MaxConnects
    /\ MakeChan
    /\ IF Sequence = 0 /\ nConnect = 0
       THEN /\ pc' = "cold"
            /\ obs' = [NewObs(Sequence) EXCEPT !.meta = 1, !.late = ctxDone',
                                               !.prevLost = obs.lost]
       ELSE /\ pc' = "start"
            /\ obs' = [NewObs(Sequence) EXCEPT !.prevLost = obs.lost]
    /\ returned' = (Sequence # 0 \/ nConnect # 0)
    /\ outcome' = "none"
    /\ wire' = NoResponse
    /\ UNCHANGED <<feed, polled, sm, second, kind, upstream, Sequence, latest, since, nFetch>>

\* couch Follower.Connect up to its first suspension: with a zero cursor it is
\* inside coldStartSequence with the metadata request sent, otherwise it has
\* started the polling goroutine and returned
CouchConnect ==
    /\ kind = "couch"
    /\ pc \in {"new", "done"}
    /\ nConnect < MaxConnects
    /\ MakeChan
    /\ IF Sequence = 0
       THEN /\ pc' = "cold"
            /\ obs' = [NewObs(Sequence) EXCEPT !.meta = 1, !.late = ctxDone',
                                               !.prevLost = obs.lost]
       ELSE /\ pc' = "start"
            /\ obs' = [NewObs(Sequence) EXCEPT !.prevLost = obs.lost]
    /\ returned' = (Sequence # 0)
    /\ outcome' = "none"
    /\ wire' = NoResponse
    /\ UNCHANGED <<feed, polled, sm, second, kind, upstream, Sequence, latest, since, nFetch>>

\* a Connect that logs the cold start error and starts the polling goroutine
ColdStartReturn_LoopAnyway ==
    /\ pc = "cold"
    /\ \E resp \in Answers(ColdResponses) :
       LET r == coldStartSequence(Sequence, resp)
       IN  /\ Sequence' = r.seq
           /\ wire' = resp
           /\ pc' = "start"
           /\ pending' = <<>>
           /\ obs' = IF r.err # NoError
                     THEN [obs EXCEPT !.coldFailed = TRUE]
                     ELSE [obs EXCEPT !.coldSeq = resp.update_seq]
    /\ returned' = TRUE
    /\ UNCHANGED <<feed, polled, sm, second, kind, upstream, latest, ctxDone, out, closed, tick, since, outcome,
                   nFetch, nConnect, lastRecv, nRecv>>

\* the rest of Connect once the metadata request has come back: on an error the
\* goroutine that reports it is started, otherwise the polling goroutine; either
\* way Connect returns the channel
ColdStartReturn ==
    /\ pc = "cold"
    /\ \E resp \in Answers(ColdResponses) :
       LET r == coldStartSequence(Sequence, resp)
       IN  /\ Sequence' = r.seq
           /\ wire' = resp
           /\ IF r.err # NoError
              THEN /\ pc' = "coldsend"
                   /\ pending' = Tagged(<<CouchResult(NoChange,
                                    Errorf("cold start failed", NoSeq, r.err))>>, 1)
                   /\ obs' = [obs EXCEPT !.coldFailed = TRUE, !.batches = 1]
              ELSE /\ pc' = "start"
                   /\ pending' = <<>>
                   /\ obs' = [obs EXCEPT !.coldSeq = resp.update_seq]
    /\ returned' = TRUE
    /\ UNCHANGED <<feed, polled, sm, second, kind, upstream, latest, ctxDone, out, closed, tick, since, outcome,
                   nFetch, nConnect, lastRecv, nRecv>>

\* rss Follower.Connect: makes the channel, starts the polling goroutine, returns
RssConnect ==
    /\ kind = "rss"
    /\ pc \in {"new", "done"}
    /\ nConnect < MaxConnects
    /\ MakeChan
    /\ pc' = "start"
    /\ obs' = NewObs(0)
    /\ returned' = TRUE
    /\ outcome' = "none"
    /\ wire' = NoResponse
    /\ UNCHANGED <<feed, polled, sm, second, kind, upstream, Sequence, latest, since, nFetch>>

\* the caller cancels the context it gave, or is about to give, to Connect
Cancel ==
    /\ ~ctxDone
    /\ pc # "done"
    /\ ctxDone' = TRUE
    /\ UNCHANGED <<feed, polled, sm, second, kind, upstream, Sequence, latest, pc, returned, out, closed, pending, tick,
                   since, outcome, wire, obs, nFetch, nConnect, lastRecv, nRecv>>

\* the consumer receives from the channel Connect returned
Receive ==
    /\ returned
    /\ out # <<>>
    /\ lastRecv' = Head(out).tag
    /\ nRecv' = nRecv + 1
    /\ out' = Tail(out)
    /\ UNCHANGED <<feed, polled, sm, second, kind, upstream, Sequence, latest, pc, returned, ctxDone, closed, pending,
                   tick, since, outcome, wire, obs, nFetch, nConnect>>

(***************************************************************************)
(* The goroutine of a failed cold start.                                   *)
(***************************************************************************)
\* out <- Result{Error: fmt.Errorf("cold start failed: %w", err)}
ColdFailSend ==
    /\ pc = "coldsend"
    /\ Len(out) < ChanCap
    /\ out' = Append(out, Head(pending))
    /\ pending' = Tail(pending)
    /\ pc' = "coldclose"
    /\ UNCHANGED <<feed, polled, sm, second, kind, upstream, Sequence, latest, returned, ctxDone, closed, tick, since,
                   outcome, wire, obs, nFetch, nConnect, lastRecv, nRecv>>

\* close(out)
ColdFailClose ==
    /\ pc = "coldclose"
    /\ closed' = TRUE
    /\ pc' = "done"
    /\ obs' = [obs EXCEPT !.closes = @ + 1]
    /\ UNCHANGED <<feed, polled, sm, second, kind, upstream, Sequence, latest, returned, ctxDone, out, pending, tick,
                   since, outcome, wire, nFetch, nConnect, lastRecv, nRecv>>

(***************************************************************************)
(* The polling goroutine.  fetch() calls getChanges under a fetch-scoped   *)
(* timeout and offers what it returned; the goroutine is suspended while   *)
(* the request is in flight ("inflight"), while it offers a Result         *)
(* ("offer") and in the select of its loop ("wait").                       *)
(***************************************************************************)
\* the getChanges calls a run may make
FetchBound == IF upstream = "feed" THEN MaxPolls ELSE MaxFetches

\* getChanges up to Client.Do: the request is built from the cursor and sent
SendRequest ==
    /\ nFetch < FetchBound
    /\ nFetch' = nFetch + 1
    /\ since' = IF kind = "couch" THEN Sequence ELSE NoSeq
    /\ pc' = "inflight"

\* a goroutine that makes the ticker and goes to the select of its loop
LoopStart_WaitFirst ==
    /\ pc = "start"
    /\ pc' = "wait"
    /\ tick' = FALSE
    /\ UNCHANGED <<feed, polled, sm, second, kind, upstream, Sequence, latest, returned, ctxDone, out, closed,
                   pending, since, outcome, wire, obs, nFetch, nConnect, lastRecv, nRecv>>

\* the goroutine starts: the ticker is made and fetch() is called at once
LoopStart ==
    /\ pc = "start"
    /\ SendRequest
    /\ tick' = FALSE
    /\ obs' = [obs EXCEPT !.changes = @ + 1, !.first = since', !.late = ctxDone]
    /\ UNCHANGED <<feed, polled, sm, second, kind, upstream, Sequence, latest, returned, ctxDone, out, closed, pending,
                   outcome, wire, nConnect, lastRecv, nRecv>>

\* fetch() that offers an empty Result when getChanges returned nothing
Fetch_Heartbeat(err, payloads) ==
    LET results == IF err # NoError
                   THEN <<IF kind = "couch" THEN CouchResult(NoChange, err)
                                            ELSE RssResult(NoItem, err)>>
                   ELSE IF payloads = <<>>
                   THEN <<IF kind = "couch" THEN CouchResult(NoChange, NoError)
                                            ELSE RssResult(NoItem, NoError)>>
                   ELSE [i \in 1..Len(payloads) |->
                            IF kind = "couch" THEN CouchResult(payloads[i], NoError)
                                              ELSE RssResult(payloads[i], NoError)]
    IN  /\ pending' = Tagged(results, obs.batches + 1)
        /\ pc' = IF results = <<>> THEN "wait" ELSE "offer"
        /\ outcome' = IF err # NoError THEN "fail" ELSE "ok"
        /\ obs' = [obs EXCEPT !.failed = IF err # NoError THEN @ + 1 ELSE @,
                              !.batches = IF results # <<>> THEN @ + 1 ELSE @]

\* fetch() that returns on an error without offering it
Fetch_Swallow(err, payloads) ==
    LET results == IF err # NoError
                   THEN <<>>
                   ELSE [i \in 1..Len(payloads) |->
                            IF kind = "couch" THEN CouchResult(payloads[i], NoError)
                                              ELSE RssResult(payloads[i], NoError)]
    IN  /\ pending' = Tagged(results, obs.batches + 1)
        /\ pc' = IF results = <<>> THEN "wait" ELSE "offer"
        /\ outcome' = IF err # NoError THEN "fail" ELSE "ok"
        /\ obs' = [obs EXCEPT !.failed = IF err # NoError THEN @ + 1 ELSE @,
                              !.batches = IF results # <<>> THEN @ + 1 ELSE @]

\* fetch() once getChanges has returned err and the payloads: the error alone is
\* to be offered, or every payload in turn; with nothing to offer fetch() returns
Fetch(err, payloads) ==
    LET results == IF err # NoError
                   THEN <<IF kind = "couch" THEN CouchResult(NoChange, err)
                                            ELSE RssResult(NoItem, err)>>
                   ELSE [i \in 1..Len(payloads) |->
                            IF kind = "couch" THEN CouchResult(payloads[i], NoError)
                                              ELSE RssResult(payloads[i], NoError)]
    IN  /\ pending' = Tagged(results, obs.batches + 1)
        /\ pc' = IF results = <<>> THEN "wait" ELSE "offer"
        /\ outcome' = IF err # NoError THEN "fail" ELSE "ok"
        /\ obs' = [obs EXCEPT !.failed = IF err # NoError THEN @ + 1 ELSE @,
                              !.batches = IF results # <<>> THEN @ + 1 ELSE @]

\* the _changes request comes back: the rest of getChanges, then fetch()
CouchGetChangesReturn ==
    /\ kind = "couch"
    /\ pc = "inflight"
    /\ \E resp \in Answers(ChangesResponses) :
       LET r == getChanges(Sequence, resp)
       IN  /\ Sequence' = r.seq
           /\ wire' = resp
           /\ Fetch(r.err, r.changes)
    /\ UNCHANGED <<feed, polled, sm, second, kind, upstream, latest, returned, ctxDone, out, closed, tick, since,
                   nFetch, nConnect, lastRecv, nRecv>>

\* the rss request comes back: the rest of getChanges, then fetch()
RssGetChangesReturn ==
    /\ kind = "rss"
    /\ pc = "inflight"
    /\ \E resp \in Answers(RssResponses) :
       LET r == rssGetChanges(latest, resp)
       IN  /\ Acquirable(sm, r.sm)
           /\ sm' = Mutex(sm, r.sm)
           /\ latest' = r.latest
           /\ wire' = resp
           /\ Fetch(r.err, r.items)
           /\ polled' = IF upstream = "feed" /\ r.err = NoError
                        THEN Polled(r.items)
                        ELSE polled
    /\ UNCHANGED <<feed, second, kind, upstream, Sequence, returned, ctxDone, out, closed, tick, since,
                   nFetch, nConnect, lastRecv, nRecv>>

\* a send that gives the Result up when the channel is full (select with default)
Offer_Drop ==
    /\ pc = "offer"
    /\ out' = IF Len(out) < ChanCap THEN Append(out, Head(pending)) ELSE out
    /\ pending' = Tail(pending)
    /\ pc' = IF Tail(pending) = <<>> THEN "wait" ELSE "offer"
    /\ UNCHANGED <<feed, polled, sm, second, kind, upstream, Sequence, latest, returned, ctxDone, closed, tick, since,
                   outcome, wire, obs, nFetch, nConnect, lastRecv, nRecv>>

\* select: case out <- Result{...}; after the last Result fetch() returns
Offer ==
    /\ pc = "offer"
    /\ Len(out) < ChanCap
    /\ out' = Append(out, Head(pending))
    /\ pending' = Tail(pending)
    /\ pc' = IF Tail(pending) = <<>> THEN "wait" ELSE "offer"
    /\ UNCHANGED <<feed, polled, sm, second, kind, upstream, Sequence, latest, returned, ctxDone, closed, tick, since,
                   outcome, wire, obs, nFetch, nConnect, lastRecv, nRecv>>

\* an offer that is a plain send: fetch() has no case <-ctx.Done()
OfferAbandon_NoDoneCase ==
    /\ pc = "offer"
    /\ FALSE
    /\ UNCHANGED vars

\* select: case <-ctx.Done(); fetch() returns without offering the rest
OfferAbandon ==
    /\ pc = "offer"
    /\ ctxDone
    /\ pending' = <<>>
    /\ pc' = "wait"
    /\ obs' = [obs EXCEPT !.abandoned = TRUE,
                          !.lost = IF kind = "couch" /\ outcome = "ok"
                                   THEN wire.last_seq ELSE @]
    /\ UNCHANGED <<feed, polled, sm, second, kind, upstream, Sequence, latest, returned, ctxDone, out, closed, tick,
                   since, outcome, wire, nFetch, nConnect, lastRecv, nRecv>>

\* a loop whose ticks start a fetch while the one before is still offering
WaitTick_WhileOffering ==
    /\ pc \in {"wait", "offer"}
    /\ tick
    /\ SendRequest
    /\ tick' = FALSE
    /\ obs' = [obs EXCEPT !.changes = @ + 1, !.ticks = @ + 1, !.late = ctxDone]
    /\ UNCHANGED <<feed, polled, sm, second, kind, upstream, Sequence, latest, returned, ctxDone, out, closed, pending,
                   outcome, wire, nConnect, lastRecv, nRecv>>

\* the loop's select: case <-ticker.C; fetch() is called
WaitTick ==
    /\ pc = "wait"
    /\ tick
    /\ SendRequest
    /\ tick' = FALSE
    /\ obs' = [obs EXCEPT !.changes = @ + 1, !.ticks = @ + 1, !.late = ctxDone]
    /\ UNCHANGED <<feed, polled, sm, second, kind, upstream, Sequence, latest, returned, ctxDone, out, closed, pending,
                   outcome, wire, nConnect, lastRecv, nRecv>>

\* a loop that also returns when the fetch before it failed
WaitDone_OnError ==
    /\ pc = "wait"
    /\ ctxDone \/ outcome = "fail"
    /\ closed' = TRUE
    /\ pc' = "done"
    /\ tick' = FALSE
    /\ obs' = [obs EXCEPT !.closes = @ + 1]
    /\ UNCHANGED <<feed, polled, sm, second, kind, upstream, Sequence, latest, returned, ctxDone, out, pending, since,
                   outcome, wire, nFetch, nConnect, lastRecv, nRecv>>

\* a loop that closes the channel itself before it returns to the deferred close
WaitDone_CloseTwice ==
    /\ pc = "wait"
    /\ ctxDone
    /\ closed' = TRUE
    /\ pc' = "done"
    /\ tick' = FALSE
    /\ obs' = [obs EXCEPT !.closes = @ + 2]
    /\ UNCHANGED <<feed, polled, sm, second, kind, upstream, Sequence, latest, returned, ctxDone, out, pending, since,
                   outcome, wire, nFetch, nConnect, lastRecv, nRecv>>

\* the loop's select: case <-ctx.Done(); return, ticker.Stop(), close(out)
WaitDone ==
    /\ pc = "wait"
    /\ ctxDone
    /\ closed' = TRUE
    /\ pc' = "done"
    /\ tick' = FALSE
    /\ obs' = [obs EXCEPT !.closes = @ + 1]
    /\ UNCHANGED <<feed, polled, sm, second, kind, upstream, Sequence, latest, returned, ctxDone, out, pending, since,
                   outcome, wire, nFetch, nConnect, lastRecv, nRecv>>

\* the ticker sends on ticker.C, which holds one tick; a tick that finds it full
\* is dropped
Tick ==
    /\ pc \in {"inflight", "offer", "wait"}
    /\ ~tick
    /\ tick' = TRUE
    /\ UNCHANGED <<feed, polled, sm, second, kind, upstream, Sequence, latest, pc, returned, ctxDone, out, closed,
                   pending, since, outcome, wire, obs, nFetch, nConnect, lastRecv, nRecv>>

Next ==
    \/ Since
    \/ CouchConnect
    \/ ColdStartReturn
    \/ RssConnect
    \/ Cancel
    \/ Receive
    \/ ColdFailSend
    \/ ColdFailClose
    \/ LoopStart
    \/ CouchGetChangesReturn
    \/ RssGetChangesReturn
    \/ Offer
    \/ OfferAbandon
    \/ WaitTick
    \/ WaitDone
    \/ Tick

Spec == Init /\ [][Next]_vars

\* One poll of the RSS follower, whatever item its cursor holds and whatever
\* the feed sends: the request of a running follower is in flight
InitRss ==
    /\ kind = "rss"
    /\ upstream = "any"
    /\ Sequence = 0
    /\ latest \in {<<>>} \cup {<<x>> : x \in FeedItems}
    /\ pc = "inflight"
    /\ returned = TRUE
    /\ ctxDone = FALSE
    /\ out = <<>>
    /\ closed = FALSE
    /\ pending = <<>>
    /\ tick = FALSE
    /\ since = NoSeq
    /\ outcome = "none"
    /\ wire = NoResponse
    /\ obs = [NewObs(0) EXCEPT !.changes = 1]
    /\ nFetch = 1
    /\ nConnect = 1
    /\ lastRecv = NoTag
    /\ nRecv = 0
    /\ second = NoSecond
    /\ sm = FALSE
    /\ feed = <<>>
    /\ polled = NoPolls

NextRss == RssGetChangesReturn

SpecRss == InitRss /\ [][NextRss]_vars

\* The RSS follower against a feed that only grows: items are appended to it
\* one by one, no more than limit of them between two polls that returned
\* without an error, and a poll that is answered gets the latest limit items.
\* Connect has been called; the context is never cancelled.
InitFeed ==
    /\ kind = "rss"
    /\ upstream = "feed"
    /\ Sequence = 0
    /\ latest = <<>>
    /\ pc = "start"
    /\ returned = TRUE
    /\ ctxDone = FALSE
    /\ out = <<>>
    /\ closed = FALSE
    /\ pending = <<>>
    /\ tick = FALSE
    /\ since = NoSeq
    /\ outcome = "none"
    /\ wire = NoResponse
    /\ obs = NewObs(0)
    /\ nFetch = 0
    /\ nConnect = 1
    /\ lastRecv = NoTag
    /\ nRecv = 0
    /\ second = NoSecond
    /\ sm = FALSE
    /\ feed \in {[i \in 1..n |-> FeedEntry(i)] : n \in 0..MaxFeed}
    /\ polled = NoPolls

\* the registry publishes a package version: an item is appended to the feed
FeedAppend ==
    /\ upstream = "feed"
    /\ Len(feed) < MaxFeed
    /\ polled.last # NoSeq => Len(feed) - polled.last < limit
    /\ feed' = Append(feed, FeedEntry(Len(feed) + 1))
    /\ UNCHANGED <<polled, sm, second, kind, upstream, Sequence, latest, pc, returned, ctxDone,
                   out, closed, pending, tick, since, outcome, wire, obs, nFetch,
                   nConnect, lastRecv, nRecv>>

NextFeed ==
    \/ FeedAppend
    \/ LoopStart
    \/ RssGetChangesReturn
    \/ Offer
    \/ Receive
    \/ Tick
    \/ WaitTick

SpecFeed == InitFeed /\ [][NextFeed]_vars

(***************************************************************************)
(* A caller that calls Connect again on a sequence follower whose polling  *)
(* goroutine runs.  Connect has no record of a goroutine it started: with  *)
(* a cursor that is not 0 it makes a channel and starts another polling    *)
(* goroutine, with the context of this call, on the same Follower.  The    *)
(* consumer of the second channel receives at once what is offered to it.  *)
(***************************************************************************)
Running == {"inflight", "offer", "wait"}

\* the second Connect call, made with a context that is not cancelled
SecondConnect ==
    /\ kind = "couch"
    /\ pc \in Running
    /\ second.pc = "none"
    /\ Sequence # 0
    /\ second' = [second EXCEPT !.pc = "start"]
    /\ UNCHANGED <<feed, polled, sm, kind, upstream, Sequence, latest, pc, returned, ctxDone, out, closed,
                   pending, tick, since, outcome, wire, obs, nFetch, nConnect, lastRecv,
                   nRecv>>

\* the second goroutine calls fetch(), or takes a tick and calls fetch():
\* getChanges sends the request with the cursor it loads
SecondSendRequest ==
    /\ second.pc \in {"start", "wait"}
    /\ nFetch < MaxFetches
    /\ nFetch' = nFetch + 1
    /\ second' = [second EXCEPT !.pc = "inflight", !.since = Sequence]
    /\ UNCHANGED <<feed, polled, sm, kind, upstream, Sequence, latest, pc, returned, ctxDone, out, closed,
                   pending, tick, since, outcome, wire, obs, nConnect, lastRecv, nRecv>>

\* the request of the second goroutine comes back: the rest of getChanges,
\* then fetch(), whose offers are received at once or given up
SecondGetChangesReturn ==
    /\ second.pc = "inflight"
    /\ \E resp \in ChangesResponses :
          Sequence' = getChanges(Sequence, resp).seq
    /\ second' = [second EXCEPT !.pc = "wait"]
    /\ UNCHANGED <<feed, polled, sm, kind, upstream, latest, pc, returned, ctxDone, out, closed, pending,
                   tick, since, outcome, wire, obs, nFetch, nConnect, lastRecv, nRecv>>

\* the caller cancels the context of the second Connect call
SecondCancel ==
    /\ second.pc \in {"start", "inflight", "wait"}
    /\ ~second.ctxDone
    /\ second' = [second EXCEPT !.ctxDone = TRUE]
    /\ UNCHANGED <<feed, polled, sm, kind, upstream, Sequence, latest, pc, returned, ctxDone, out, closed,
                   pending, tick, since, outcome, wire, obs, nFetch, nConnect, lastRecv,
                   nRecv>>

\* the select of the second loop: case <-ctx.Done(); return
SecondWaitDone ==
    /\ second.pc = "wait"
    /\ second.ctxDone
    /\ second' = [second EXCEPT !.pc = "done"]
    /\ UNCHANGED <<feed, polled, sm, kind, upstream, Sequence, latest, pc, returned, ctxDone, out, closed,
                   pending, tick, since, outcome, wire, obs, nFetch, nConnect, lastRecv,
                   nRecv>>

InitShared == Init /\ kind = "couch" /\ upstream = "quiet"

NextShared ==
    \/ Since
    \/ CouchConnect
    \/ ColdStartReturn
    \/ Cancel
    \/ Receive
    \/ ColdFailSend
    \/ ColdFailClose
    \/ LoopStart
    \/ CouchGetChangesReturn
    \/ Offer
    \/ OfferAbandon
    \/ WaitTick
    \/ WaitDone
    \/ Tick
    \/ SecondConnect
    \/ SecondSendRequest
    \/ SecondGetChangesReturn
    \/ SecondCancel
    \/ SecondWaitDone

SpecShared == InitShared /\ [][NextShared]_vars

\* The goroutines are scheduled: one that can take a step takes it.  A request
\* comes back, since it carries the fetch-scoped timeout; a select whose one
\* case stays ready takes a case; and a select that finds ctx.Done() ready
\* again and again takes that case in the end, since Go picks among the ready
\* cases at random.  Nothing is assumed of the caller: it need not cancel and
\* need not receive.
FairSpec ==
    /\ Spec
    /\ WF_vars(ColdStartReturn)
    /\ WF_vars(ColdFailSend)
    /\ WF_vars(ColdFailClose)
    /\ WF_vars(LoopStart)
    /\ WF_vars(CouchGetChangesReturn)
    /\ WF_vars(RssGetChangesReturn)
    /\ WF_vars(Offer)
    /\ WF_vars(OfferAbandon)
    /\ WF_vars(WaitTick)
    /\ SF_vars(WaitDone)

(***************************************************************************)
(* Properties.                                                             *)
(***************************************************************************)
\* everything that is in the channel or still to be offered, oldest first
InTransit == out \o pending

\* C1: sequence follower: after every getChanges call that decoded a batch the
\* cursor is the last_seq of that batch, with or without changes in it, and
\* fetch() holds one Result per change of the batch, in the batch's order and
\* without an error
C1_CursorIsLastSeq ==
    [][(kind' = "couch" /\ pc = "inflight" /\ pc' # "inflight" /\ wire'.status = "ok")
          => /\ Sequence' = wire'.last_seq
             /\ Len(pending') = Len(wire'.results)
             /\ \A i \in 1..Len(pending') :
                   /\ pending'[i].Change = wire'.results[i]
                   /\ pending'[i].Error = NoError
             /\ out' = out]_vars

\* C1 witness: cursor 1, a batch of one change with last_seq 2: one Result for
\* the change is to be offered and the cursor is 2
C1_Witness ==
    /\ kind = "couch"
    /\ since = 1
    /\ wire.status = "ok" /\ wire.last_seq = 2 /\ Len(wire.results) = 1
    /\ Sequence = 2
    /\ pc = "offer" /\ Len(pending) = 1 /\ pending[1].Change = wire.results[1]

\* C2: sequence follower: once Connect is called no step makes the cursor
\* smaller
C2_CursorMonotonic ==
    [][(kind = "couch" /\ pc # "new") => Sequence' >= Sequence]_vars

\* C3: sequence follower: a getChanges call that fails leaves the cursor at the
\* since it sent, the request after a failed one carries the same since, and a
\* returning getChanges call changes the cursor only if the body decoded
C3_FailureKeepsCursor ==
    [][kind = "couch" =>
          /\ (outcome' = "fail" => Sequence' = since')
          /\ (outcome = "fail" => since' = since)
          /\ (pc = "inflight" /\ Sequence' # Sequence => wire'.status = "ok")]_vars

\* C3 witness: the request after a failed one is in flight, with the same since
C3_Witness ==
    /\ kind = "couch"
    /\ outcome = "fail"
    /\ pc = "inflight"
    /\ obs.changes = 2
    /\ since = 2 /\ Sequence = 2

\* C4: both followers: a getChanges call that fails leaves fetch() with one
\* Result to offer, which carries the error and no payload; while the context is
\* live an offered Result leaves fetch() only by being sent on the channel, the
\* loop stays between request, offer and select with the channel open, every
\* request but the first has taken one tick, and a tick taken starts a request
C4_FailureIsReportedOnce ==
    [][/\ (pc = "inflight" /\ pc' # "inflight" /\ outcome' = "fail")
            => /\ pc' = "offer"
               /\ Len(pending') = 1
               /\ pending'[1].Error # NoError
               /\ Payload(pending'[1]) = NoPayload
               /\ out' = out
       /\ (pc = "offer" /\ ~ctxDone /\ pending' # pending)
            => /\ out' = Append(out, Head(pending))
               /\ pending' = Tail(pending)
       /\ (pc \in {"inflight", "offer", "wait"} /\ ~ctxDone)
            => (pc' \in {"inflight", "offer", "wait"} /\ ~closed')
       /\ (obs'.changes > 0 => obs'.changes = obs'.ticks + 1)
       /\ (pc = "wait" /\ ~ctxDone /\ tick /\ ~tick') => pc' = "inflight"]_vars

\* C4 witness: the context is live, the first request timed out, its error was
\* received, and the request of the next tick is in flight
C4_Witness ==
    /\ kind = "rss"
    /\ ~ctxDone
    /\ outcome = "fail" /\ wire.cause = "deadline exceeded"
    /\ obs.failed = 1 /\ obs.changes = 2 /\ obs.ticks = 1
    /\ nRecv = 1 /\ out = <<>>
    /\ pc = "inflight"

\* the position that carried a Result in the body of the response
Pos(r) == Payload(r).pos

\* C5 as claimed: what is in the channel or still to be offered is in the order
\* of the polls and, within one poll, in the order in which the response listed it
C5_UpstreamOrder ==
    \A i \in 1..(Len(InTransit) - 1) :
        LET a == InTransit[i]
            b == InTransit[i + 1]
        IN  \/ a.tag.batch < b.tag.batch
            \/ a.tag.batch = b.tag.batch /\ Pos(a) < Pos(b)

\* C5 amended: what is in the channel or still to be offered is in the order of
\* the polls and, within one poll, in the order in which getChanges returned
\* it: the order of the response for the sequence follower, the reverse of the
\* order of the response (oldest first) for the RSS follower; and it all comes
\* after what the consumer received last
C5_DeliveryOrder ==
    /\ \A i \in 1..(Len(InTransit) - 1) :
          LET a == InTransit[i]
              b == InTransit[i + 1]
          IN  \/ a.tag.batch < b.tag.batch
              \/ /\ a.tag.batch = b.tag.batch
                 /\ a.tag.idx < b.tag.idx
                 /\ IF kind = "couch" THEN Pos(a) < Pos(b) ELSE Pos(a) > Pos(b)
    /\ (nRecv > 0 /\ InTransit # <<>>)
          => \/ lastRecv.batch < InTransit[1].tag.batch
             \/ /\ lastRecv.batch = InTransit[1].tag.batch
                /\ lastRecv.idx < InTransit[1].tag.idx

\* C5 witness: two items of one RSS poll are in the channel, the older first
C5_Witness ==
    /\ kind = "rss"
    /\ Len(out) >= 2
    /\ out[1].tag.batch = out[2].tag.batch
    /\ Pos(out[1]) = 2 /\ Pos(out[2]) = 1

\* the numbering of what the consumer received last and of what is in transit
Chain ==
    (IF nRecv > 0 THEN <<lastRecv>> ELSE <<>>)
        \o [i \in 1..Len(InTransit) |-> InTransit[i].tag]

\* b is the Result that getChanges returned right after a
Follows(a, b) ==
    \/ b.batch = a.batch /\ b.idx = a.idx + 1 /\ b.n = a.n
    \/ b.batch = a.batch + 1 /\ b.idx = 1 /\ a.idx = a.n

\* C6: the channel never holds more than 10 Results and, while the context is
\* not cancelled, every Result of every getChanges call is in the channel, still
\* to be offered, or received by the consumer, once and in turn: none is
\* dropped, none is sent twice
C6_BoundedAndLossless ==
    /\ Len(out) <= ChanCap
    /\ ~ctxDone =>
          /\ \A i \in 1..(Len(Chain) - 1) : Follows(Chain[i], Chain[i + 1])
          /\ (nRecv = 0 /\ Chain # <<>>) => (Chain[1].batch = 1 /\ Chain[1].idx = 1)
          /\ Chain # <<>> =>
                /\ Chain[Len(Chain)].batch = obs.batches
                /\ Chain[Len(Chain)].idx = Chain[Len(Chain)].n
          /\ Chain = <<>> => obs.batches = 0

\* C6 witness: the consumer received nothing, the channel holds 10 Results and
\* the producer waits to offer the next one of the batch
C6_Witness ==
    /\ ~ctxDone
    /\ nRecv = 0
    /\ Len(out) = ChanCap
    /\ pc = "offer" /\ pending # <<>>
    /\ pending[1].tag.batch = out[1].tag.batch

\* C7: sequence follower: once coldStartSequence has returned an error, no
\* _changes request is issued, the goroutine is the one that reports and closes,
\* one Result in all is in the channel, to be sent or received, its Error is not
\* nil, the channel is closed only after that Result was sent, and the close
\* can always follow the send
C7_ColdStartFailureIsFatal ==
    (kind = "couch" /\ obs.coldFailed) =>
        /\ obs.changes = 0
        /\ pc \in {"coldsend", "coldclose", "done"}
        /\ nRecv + Len(InTransit) = 1
        /\ \A i \in 1..Len(InTransit) :
              InTransit[i].Error # NoError /\ InTransit[i].Change = NoChange
        /\ closed <=> pc = "done"
        /\ pc = "coldsend" <=> pending # <<>>
        /\ pc = "coldclose" => ENABLED ColdFailClose

\* C7 witness: the metadata request timed out, the one Result was received and
\* the channel is closed
C7_Witness ==
    /\ kind = "couch"
    /\ obs.coldFailed /\ obs.seq0 = 0
    /\ wire.status = "transport"
    /\ nRecv = 1 /\ out = <<>> /\ closed
    /\ pc = "done"

\* C8: sequence follower: a metadata response decoded with update_seq = 0 makes
\* Connect report one Result whose Error wraps ErrInvalidUpdateSequence and
\* leaves the cursor 0; from then on that Result is the only one of the channel
\* and the cursor stays 0
C8_ZeroUpdateSeqIsInvalid ==
    /\ [][(pc = "cold" /\ pc' # "cold" /\ wire'.status = "ok" /\ wire'.update_seq = 0)
             => /\ pc' = "coldsend"
                /\ Sequence' = 0
                /\ out' = <<>>
                /\ Len(pending') = 1
                /\ ErrorsIs(pending'[1].Error, ErrInvalidUpdateSequence)
                /\ pending'[1].Error # ErrInvalidUpdateSequence]_vars
    /\ []((kind = "couch" /\ obs.coldFailed /\ wire.status = "ok")
             => /\ wire.update_seq = 0
                /\ Sequence = 0
                /\ nRecv + Len(InTransit) = 1
                /\ \A i \in 1..Len(InTransit) :
                      ErrorsIs(InTransit[i].Error, ErrInvalidUpdateSequence))

\* C8 witness: the metadata said update_seq = 0, the wrapped error is in the
\* channel, which is closed, and the cursor is 0
C8_Witness ==
    /\ kind = "couch"
    /\ obs.coldFailed
    /\ wire.status = "ok" /\ wire.update_seq = 0
    /\ Len(out) = 1 /\ ErrorsIs(out[1].Error, ErrInvalidUpdateSequence)
    /\ closed
    /\ Sequence = 0

\* C9: sequence follower: a Connect call has issued one metadata request if the
\* cursor was 0 when it was called and none otherwise, however far it has got;
\* when the cursor was not 0, the first _changes request carries that cursor
C9_MetadataOnlyFromZero ==
    (kind = "couch" /\ pc # "new") =>
        /\ obs.meta = (IF obs.seq0 = 0 THEN 1 ELSE 0)
        /\ (obs.seq0 > 0 /\ obs.changes >= 1) => obs.first = obs.seq0
        /\ (obs.seq0 > 0) => (obs.coldSeq = NoSeq /\ ~obs.coldFailed)

\* C9 witness: after Since(2) the first Connect has its first _changes request
\* in flight with since = 2 and has made no metadata request
C9_Witness ==
    /\ kind = "couch"
    /\ nConnect = 1
    /\ obs.seq0 = 2 /\ obs.meta = 0
    /\ obs.changes = 1 /\ obs.first = 2 /\ since = 2
    /\ pc = "inflight"

\* C10: sequence follower: the update_seq of a successful cold start is not 0,
\* it is the cursor when the polling goroutine starts, and it is the since of
\* the first _changes request of that Connect call
C10_ColdStartSetsCursor ==
    (kind = "couch" /\ obs.coldSeq # NoSeq) =>
        /\ obs.coldSeq > 0
        /\ obs.seq0 = 0 /\ obs.meta = 1
        /\ pc = "start" => Sequence = obs.coldSeq
        /\ obs.changes >= 1 => obs.first = obs.coldSeq

\* C10 witness: the cold start found update_seq = 2 and the first _changes
\* request is in flight with since = 2
C10_Witness ==
    /\ kind = "couch"
    /\ obs.seq0 = 0 /\ obs.coldSeq = 2
    /\ obs.changes = 1 /\ obs.first = 2 /\ since = 2
    /\ pc = "inflight"

\* C11: both followers, both goroutines: close(out) is called at most once for
\* the channel of a Connect call, as the last step of its goroutine; once the
\* channel is closed no send on it is possible, nothing is left to offer, and
\* until the next Connect makes a new channel nothing is added to it
C11_ClosedOnceNoSendAfter ==
    /\ [](/\ obs.closes <= 1
          /\ closed <=> obs.closes = 1
          /\ closed <=> pc = "done"
          /\ closed => (pending = <<>> /\ ~ENABLED Offer /\ ~ENABLED ColdFailSend))
    /\ [][(closed /\ nConnect' = nConnect)
             => (closed' /\ pc' = "done" /\ Len(out') <= Len(out)
                    /\ obs'.closes = obs.closes)]_vars

\* C11 witness: the polling goroutine saw the cancellation while it offered a
\* Result, gave the offer up and closed the channel, in which a Result waits
C11_Witness ==
    /\ closed
    /\ obs.closes = 1
    /\ ~obs.coldFailed /\ obs.abandoned
    /\ out # <<>>
    /\ pc = "done"

\* C12: whenever the channel is closed, the context of that Connect call has
\* been cancelled or its cold start failed; the step that closes the channel of
\* a polling goroutine is taken with the context cancelled, whatever the
\* fetches before it came back with
C12_ClosedOnlyByCancelOrColdFailure ==
    /\ [](closed => (ctxDone \/ obs.coldFailed))
    /\ [][(~closed /\ closed' /\ ~obs.coldFailed) => (ctxDone /\ pc = "wait")]_vars
    /\ [][(pc = "inflight" /\ pc' # "inflight") => ~closed']_vars

\* C12 witness: a fetch timed out before any cancellation and the next one
\* decoded an empty batch, the loop went on, and the channel was closed after
\* the context was cancelled
C12_Witness ==
    /\ closed /\ ctxDone
    /\ ~obs.coldFailed
    /\ obs.failed = 1 /\ obs.changes = 2
    /\ outcome = "ok" /\ wire.status = "ok" /\ wire.results = <<>>
    /\ nRecv = 1 /\ out = <<>>

\* C13: once the context is cancelled with the polling goroutine waiting for
\* the request, offering a Result or in the select of its loop, the channel is
\* closed in the end, whether or not the consumer receives
C13_CancelLeadsToClose ==
    (ctxDone /\ pc \in {"inflight", "offer", "wait"}) ~> closed

\* C13 witness: the context is cancelled while the goroutine is blocked
\* offering to a full channel from which nothing was ever received
C13_Witness ==
    /\ ctxDone
    /\ pc = "offer" /\ pending # <<>>
    /\ Len(out) = ChanCap
    /\ nRecv = 0
    /\ ~closed

\* C14: a Result that fetch() offers with the context already cancelled is not
\* sent, nothing more of its batch is sent, and after the offer was given up
\* the goroutine makes no further request
C14_CancelledOfferAbandoned ==
    /\ [][(pc = "offer" /\ ctxDone /\ pc' # "offer")
             => (out' = out /\ pending' = <<>>)]_vars
    /\ [][(pc = "offer" /\ ctxDone /\ pc' = "offer") => out' = out]_vars
    /\ [][obs.abandoned => obs'.changes <= obs.changes]_vars

\* C15: with the context cancelled while the goroutine is in the select of its
\* loop, the step that leaves the select closes the channel, and sends nothing,
\* even when a tick is ready as well
C15_CancelledWaitCloses ==
    [][(pc = "wait" /\ ctxDone /\ pc' # "wait")
          => (pc' = "done" /\ closed' /\ out' = out /\ obs'.changes = obs.changes)]_vars

\* C16: once Connect has been called it has returned the channel: it is never
\* found waiting for a request to come back
C16_ConnectReturnsAtOnce == (pc # "new") => returned

\* C17 as claimed: a request that was in flight when the context was cancelled
\* comes back with the upstream's answer or with the fetch's own timeout, never
\* with the cancellation
C17_FetchRunsToCompletion ==
    [][(pc = "inflight" /\ ~obs.late /\ pc' # "inflight")
          => wire'.cause # "context canceled"]_vars

\* C17 amended: a request in flight comes back with the upstream's answer, with
\* the fetch's own timeout or, only if the context has been cancelled, with the
\* context's error; an interrupted fetch leaves the cursor as it was and gives
\* fetch() one error Result, which wraps the context's error, to offer; the
\* channel is not closed by that step, but later from the select of the loop
C17_CancelInterruptsFetch ==
    [][(pc = "inflight" /\ pc' # "inflight")
          => /\ wire'.cause \in {Nil, "deadline exceeded", "context canceled"}
             /\ wire'.cause = "context canceled"
                   => /\ ctxDone
                      /\ outcome' = "fail"
                      /\ Sequence' = Sequence /\ latest' = latest
                      /\ pc' = "offer"
                      /\ Len(pending') = 1
                      /\ ErrorsIs(pending'[1].Error, LibErr("context canceled"))
                      /\ ~closed']_vars

\* C17 witness: the context was cancelled with the first _changes request in
\* flight; the request came back with the context's error, the cursor is the
\* since it carried, and the error is to be offered
C17_Witness ==
    /\ kind = "couch"
    /\ ctxDone /\ ~obs.late
    /\ wire.cause = "context canceled"
    /\ obs.changes = 1 /\ Sequence = since
    /\ pc = "offer" /\ Len(pending) = 1
    /\ ~closed

\* the index, from 1, of the first item of the window w that Is the item x
FirstIs(w, x) ==
    CHOOSE k \in 1..Len(w) : Is(w[k], x) /\ \A j \in 1..(k - 1) : ~Is(w[j], x)

\* the items of the Results that fetch() has to offer
Emitted(list) == [i \in 1..Len(list) |-> list[i].FeedItem]

\* C18: RSS follower: when the cursor item first occurs at index k (from 0) of
\* the fetched window, the poll yields the k items before it, oldest first, and
\* no error; when k > 0 the last of them is the head of the window, which is
\* not Is-equal to the old cursor and is the new cursor
C18_TruncateAtCursor ==
    [][(kind = "rss" /\ pc = "inflight" /\ pc' # "inflight"
           /\ wire'.status = "ok" /\ latest # <<>>
           /\ \E j \in 1..Len(wire'.results) : Is(wire'.results[j], latest[1]))
          => LET w == wire'.results
                 k == FirstIs(w, latest[1]) - 1
             IN  /\ Len(pending') = k
                 /\ Emitted(pending') = Reverse(SubSeq(w, 1, k))
                 /\ \A i \in 1..k : pending'[i].Error = NoError
                 /\ k > 0 => /\ pending'[k].FeedItem = w[1]
                             /\ ~Is(w[1], latest[1])
                             /\ latest' = <<w[1]>>]_vars

\* C18 witness: of a window of 3 items the poll yielded the one at index 0,
\* which is the new cursor: the old cursor was at index 1, and again at index 2
C18_Witness ==
    /\ wire.status = "ok" /\ Len(wire.results) = 3
    /\ Len(pending) = 1
    /\ pending[1].FeedItem = wire.results[1]
    /\ Is(wire.results[3], wire.results[2])
    /\ latest = <<wire.results[1]>>
    /\ pc = "offer"

\* C19: RSS follower: when no cursor is stored, or no item of a window that is
\* not empty Is the cursor, the poll yields every item of the window, oldest
\* first, and no error
C19_WholeWindowWhenNotFound ==
    [][(kind = "rss" /\ pc = "inflight" /\ pc' # "inflight"
           /\ wire'.status = "ok" /\ wire'.results # <<>>
           /\ (latest = <<>>
                  \/ \A j \in 1..Len(wire'.results) : ~Is(wire'.results[j], latest[1])))
          => /\ Emitted(pending') = Reverse(wire'.results)
             /\ \A i \in 1..Len(pending') : pending'[i].Error = NoError
             /\ pc' = "offer"]_vars

\* C19 witness: a window of 3 different items was yielded whole, the item at
\* index 2 first
C19_Witness ==
    /\ wire.status = "ok" /\ Len(wire.results) = 3
    /\ Len(pending) = 3
    /\ pending[1].FeedItem = wire.results[3]
    /\ pending[3].FeedItem = wire.results[1]
    /\ ~Is(wire.results[1], wire.results[3])
    /\ pc = "offer"

\* C20: RSS follower: a poll that yields items leaves as cursor the item at
\* index 0 of the window as it was received; a poll whose window begins with
\* the cursor item yields nothing, leaves the cursor as it was and returns to
\* the select of the loop
C20_CursorIsHeadOrUnchanged ==
    [][(kind = "rss" /\ pc = "inflight" /\ pc' # "inflight" /\ wire'.status = "ok")
          => /\ (pending' # <<>> /\ pending'[1].Error = NoError)
                   => (latest' = <<wire'.results[1]>>
                          /\ wire'.results[1].pos = 1)
             /\ (wire'.results # <<>> /\ latest # <<>>
                    /\ Is(wire'.results[1], latest[1]))
                   => (latest' = latest /\ pending' = <<>> /\ out' = out
                          /\ pc' = "wait")]_vars

\* C20 witness: the window began with an item that Is the cursor though its
\* link differs: nothing was yielded and the cursor is the old item
C20_Witness ==
    /\ wire.status = "ok" /\ Len(wire.results) = 3
    /\ latest # <<>>
    /\ Is(wire.results[1], latest[1])
    /\ wire.results[1].Link # latest[1].Link
    /\ pending = <<>>
    /\ pc = "wait"

\* C21: RSS follower: a response that decodes to a channel without items gives
\* fetch() one Result to offer, whose Error is ErrEmptyFeed itself and which
\* carries no item; the cursor item is as it was
C21_EmptyFeedIsAnError ==
    [][(kind = "rss" /\ pc = "inflight" /\ pc' # "inflight"
           /\ wire'.status = "ok" /\ wire'.results = <<>>)
          => /\ Len(pending') = 1
             /\ pending'[1].Error = ErrEmptyFeed
             /\ ErrorsIs(pending'[1].Error, ErrEmptyFeed)
             /\ pending'[1].FeedItem = NoItem
             /\ latest' = latest
             /\ out' = out
             /\ pc' = "offer"]_vars

\* C21 witness: the feed answered a follower that holds a cursor item with a
\* channel without items; ErrEmptyFeed is to be offered and the cursor is kept
C21_Witness ==
    /\ kind = "rss"
    /\ wire.status = "ok" /\ wire.results = <<>>
    /\ latest # <<>>
    /\ Len(pending) = 1 /\ pending[1].Error = ErrEmptyFeed
    /\ pc = "offer"

\* C22: RSS follower: when a poll decoded a window that was not empty and the
\* next poll decodes a window with the same head item, the second poll yields
\* nothing, sends nothing and leaves the cursor as the first poll left it
C22_SameHeadPollIsNoOp ==
    [][(kind = "rss" /\ pc = "inflight" /\ pc' # "inflight"
           /\ outcome = "ok" /\ wire.status = "ok" /\ wire.results # <<>>
           /\ wire'.status = "ok" /\ wire'.results # <<>>
           /\ wire'.results[1] = wire.results[1])
          => /\ pending' = <<>>
             /\ out' = out
             /\ latest' = latest
             /\ outcome' = "ok"
             /\ pc' = "wait"]_vars

\* C22 witness: the first poll of a follower yielded a window, the second poll
\* decoded a longer window with the same head and yielded nothing
C22_Witness ==
    /\ kind = "rss"
    /\ obs.changes = 2 /\ obs.failed = 0 /\ obs.batches = 1
    /\ outcome = "ok" /\ wire.status = "ok" /\ Len(wire.results) = 2
    /\ latest = <<wire.results[1]>>
    /\ pending = <<>> /\ Len(out) + nRecv = 1
    /\ pc = "wait"

\* the items Is is tried on: every title, two links, three raw dates of which
\* two parse alike, two creators
IsInputs ==
    {Item(t, l, d, c, 0) : t \in 1..MaxTitle, l \in 1..2, d \in 1..3, c \in 1..2}

\* C23: Is holds of two items exactly when their Creator, Title and raw PubDate
\* are equal: whatever their Links, whatever their dates parse to, and of any
\* item and itself; so it is with the cursor and the items of a fetched window
C23_IsComparesThreeFields ==
    /\ pc = "inflight" => \A a, b \in IsInputs :
          /\ Is(a, b) <=> (a.Creator = b.Creator /\ a.Title = b.Title
                              /\ a.PubDate = b.PubDate)
          /\ Is(a, a)
          /\ Is(a, [a EXCEPT !.Link = b.Link])
          /\ (a.PubDate # b.PubDate /\ Date(a) = Date(b)) => ~Is(a, b)
    /\ latest # <<>> =>
          \A j \in 1..Len(wire.results) :
              Is(wire.results[j], latest[1])
                  <=> /\ wire.results[j].Creator = latest[1].Creator
                      /\ wire.results[j].Title = latest[1].Title
                      /\ wire.results[j].PubDate = latest[1].PubDate

\* C23 witness: a poll met its cursor item at index 1 behind an item of the
\* same title and creator with another raw date, and yielded that item alone
C23_Witness ==
    /\ kind = "rss"
    /\ wire.status = "ok" /\ Len(wire.results) = 2
    /\ wire.results[1].Title = wire.results[2].Title
    /\ wire.results[1].Creator = wire.results[2].Creator
    /\ wire.results[1].PubDate # wire.results[2].PubDate
    /\ Len(pending) = 1 /\ pending[1].FeedItem = wire.results[1]
    /\ pc = "offer"

\* C24: every Result in the channel or about to be offered, of either follower
\* and of either goroutine, has an Error and no payload, or no Error and a
\* payload that the upstream listed
C24_ResultIsEventOrError ==
    \A i \in 1..Len(InTransit) :
        LET r == InTransit[i]
        IN  \/ r.Error # NoError /\ Payload(r) = NoPayload
            \/ r.Error = NoError /\ Payload(r) # NoPayload /\ Pos(r) >= 1

\* C24 witness: the channel of a sequence follower holds an error Result of a
\* failed fetch and, behind it, a change of the next fetch
C24_Witness ==
    /\ kind = "couch"
    /\ Len(out) = 2
    /\ out[1].Error # NoError /\ out[1].Change = NoChange
    /\ out[2].Error = NoError /\ out[2].Change # NoChange

\* C25: whatever Connect calls are made on a Follower, two polling goroutines
\* never run on it at once, and once a Connect call is past its cold start the
\* cursor changes only when the request of its polling goroutine comes back
C25_OneLoopSoleWriter ==
    /\ [](~(pc \in Running /\ second.pc \in {"start", "inflight", "wait"}))
    /\ [][(Sequence' # Sequence /\ pc \notin {"new", "cold"})
             => (pc = "inflight" /\ pc' # "inflight")]_vars

\* C26: sequence follower made by NewFollower: no Result in its channel or
\* about to be offered carries a change whose Deleted flag is set
C26_NoDeletionDelivered ==
    kind = "couch" => \A i \in 1..Len(InTransit) : ~InTransit[i].Change.Deleted

\* C27: both followers: the first step of the polling goroutine sends the
\* first request, with no tick fired or taken; every other request is sent by
\* a step that takes one tick from the select of the loop; so a Connect call
\* has sent one request more than it has taken ticks
C27_FirstFetchNeedsNoTick ==
    /\ [][(pc = "start" /\ pc' # "start")
             => (pc' = "inflight" /\ ~tick /\ ~tick'
                    /\ obs'.changes = 1 /\ obs'.ticks = 0)]_vars
    /\ [][(pc # "start" /\ obs'.changes # obs.changes /\ nConnect' = nConnect)
             => /\ pc = "wait" /\ pc' = "inflight"
                /\ tick /\ ~tick'
                /\ obs'.changes = obs.changes + 1
                /\ obs'.ticks = obs.ticks + 1]_vars
    /\ [](obs.changes = 0 => (obs.ticks = 0 /\ ~tick))

\* C27 witness: the first batch of a Connect call is in the channel and no
\* tick has fired yet
C27_Witness ==
    /\ obs.changes = 1 /\ obs.ticks = 0 /\ ~tick
    /\ outcome = "ok"
    /\ Len(out) = 1 /\ out[1].Error = NoError /\ out[1].tag.batch = 1
    /\ pc = "wait"
    /\ ~ctxDone

\* what the text of an error says of the phase that failed
Phase(err) ==
    IF err = NoError THEN "none"
    ELSE IF err[1].text = "cold start failed" THEN "cold start"
    ELSE IF err[1].text = "decoding body" THEN "decode"
    ELSE IF err[1].text \in {"doing request", "unexpected status"} THEN "request"
    ELSE IF err = ErrEmptyFeed THEN "empty feed"
    ELSE "unknown"

\* the phase in which a request with the answer resp fails
FailedPhase(resp) ==
    CASE resp.status \in {"transport", "status"} -> "request"
      [] resp.status = "decode" -> "decode"
      [] resp.status = "ok" -> "empty feed"

\* C28 as claimed: the error of a failed cold start names the cold start, and
\* the error of a failed fetch, of either follower, names the phase that
\* failed and carries the cursor
C28_ErrorsCarryPhaseAndCursor ==
    /\ [][(pc = "cold" /\ pc' = "coldsend")
             => Phase(pending'[1].Error) = "cold start"]_vars
    /\ [][(pc = "inflight" /\ pc' # "inflight" /\ outcome' = "fail")
             => /\ Phase(pending'[1].Error) = FailedPhase(wire')
                /\ pending'[1].Error[1].seq # NoSeq]_vars

\* C28 amended: the error of a failed cold start names the cold start; the
\* error of a failed fetch names the phase that failed; that of the sequence
\* follower carries the cursor that the request carried, which is still the
\* cursor, and that of the RSS follower carries no cursor
C28_ErrorsCarryPhase ==
    /\ [][(pc = "cold" /\ pc' = "coldsend")
             => Phase(pending'[1].Error) = "cold start"]_vars
    /\ [][(pc = "inflight" /\ pc' # "inflight" /\ outcome' = "fail")
             => LET e == pending'[1].Error
                IN  /\ Phase(e) = FailedPhase(wire')
                    /\ kind = "couch" => (e[1].seq = since /\ e[1].seq = Sequence')
                    /\ kind = "rss" => \A i \in 1..Len(e) : e[i].seq = NoSeq]_vars
    /\ [](\A i \in 1..Len(InTransit) :
             LET e == InTransit[i].Error
             IN  /\ Phase(e) # "unknown"
                 /\ Phase(e) = "cold start" <=> (e # NoError /\ obs.coldFailed))

\* C28 witness: the channel of a sequence follower holds the error of a body
\* that did not decode, with the cursor 2 of the request
C28_Witness ==
    /\ kind = "couch"
    /\ since = 2 /\ Sequence = 2
    /\ wire.status = "decode"
    /\ Len(out) = 1
    /\ Phase(out[1].Error) = "decode" /\ out[1].Error[1].seq = 2

\* C29: the rss follower never holds its cursor mutex at a suspension point of
\* the scheduler: not while the request is with the network, not while a Result
\* waits for room in the channel, not while the loop waits for the timer; every
\* Lock of getChanges is followed by its Unlock before getChanges returns.
C29_NoLockAcrossSuspension ==
    kind = "rss" => ~sm

\* getChanges has taken the mutex to move the cursor, and its first new item is
\* being offered
C29_Witness ==
    /\ kind = "rss"
    /\ pc = "offer"
    /\ outcome = "ok"
    /\ latest # <<>>
    /\ obs.changes = 1
    /\ pending # <<>>
    /\ ~sm

\* C30: the sequence follower has its cursor at a batch's last_seq from the
\* moment getChanges returns the batch, before the first event is offered; when
\* the offer is given up for a cancelled context the cursor stays there, and the
\* next Connect on the Follower starts from it: it asks for the changes since
\* that last_seq, not for the events left undelivered.
C30_CursorAheadOfDelivery ==
    /\ (kind = "couch" /\ pc = "offer" /\ outcome = "ok")
          => Sequence = wire.last_seq
    /\ (kind = "couch" /\ obs.lost # NoSeq)
          => Sequence = obs.lost
    /\ (kind = "couch" /\ obs.prevLost # NoSeq)
          => /\ obs.seq0 = obs.prevLost
             /\ obs.prevLost # 0
                  => /\ obs.meta = 0
                     /\ obs.first \in {NoSeq, obs.prevLost}

\* a batch moved the cursor to 2, the context was cancelled and the offer of the
\* batch was given up, and the next Connect has its first request in flight
\* with since = 2 and no metadata request made
C30_Witness ==
    /\ kind = "couch"
    /\ nConnect = 2
    /\ obs.prevLost = 2
    /\ obs.meta = 0
    /\ pc = "inflight"
    /\ obs.first = 2
    /\ since = 2

\* C34: RSS follower: a fetch that fails in the transport, with a status other
\* than 200 or in the decoding leaves the cursor item as it was and gives
\* fetch() one Result to offer, which carries the error and no item; nothing
\* but a successful poll moves the cursor, so the poll after the failure
\* truncates against the cursor the failed one had.
C34_FailedPollKeepsCursor ==
    [][kind = "rss" =>
          /\ (pc = "inflight" /\ pc' # "inflight"
                 /\ wire'.status \in {"transport", "status", "decode"})
                => /\ latest' = latest
                   /\ outcome' = "fail"
                   /\ Len(pending') = 1
                   /\ pending'[1].Error # NoError
                   /\ pending'[1].FeedItem = NoItem
                   /\ out' = out
                   /\ pc' = "offer"
          /\ latest' # latest
                => (pc = "inflight" /\ wire'.status = "ok")]_vars

\* the first poll set the cursor, the second one failed in the decoding: its
\* error is to be offered and the cursor is still there
C34_Witness ==
    /\ kind = "rss"
    /\ obs.changes = 2
    /\ wire.status = "decode"
    /\ outcome = "fail"
    /\ latest # <<>>
    /\ Len(pending) = 1 /\ pending[1].Error # NoError
    /\ pc = "offer"

\* C32: sequence follower: a cold start that failed, for whatever cause, leaves
\* the cursor at 0, and the next Connect on the Follower makes the metadata
\* request again; after a cold start that succeeded, a next Connect that finds
\* the cursor other than 0 makes no metadata request and sends its first
\* _changes request with that cursor.
C32_ColdStartAgainOnlyFromZero ==
    /\ []((kind = "couch" /\ obs.coldFailed) => Sequence = 0)
    /\ [][(kind = "couch" /\ nConnect >= 1 /\ nConnect' = nConnect + 1) =>
             /\ obs.coldFailed
                   => /\ pc' = "cold"
                      /\ obs'.meta = 1
                      /\ ~returned'
             /\ (obs.coldSeq # NoSeq /\ Sequence # 0)
                   => /\ pc' = "start"
                      /\ obs'.meta = 0
                      /\ obs'.seq0 = Sequence
                      /\ Sequence' = Sequence]_vars
    /\ []((kind = "couch" /\ nConnect >= 2 /\ obs.seq0 # 0)
             => /\ obs.meta = 0
                /\ obs.coldSeq = NoSeq
                /\ obs.first \in {NoSeq, obs.seq0})

\* no _changes request was ever made, so the first Connect ended with a failed
\* cold start; the second Connect found the cursor at 0 and has its metadata
\* request in flight
C32_Witness ==
    /\ kind = "couch"
    /\ nConnect = 2
    /\ nFetch = 0
    /\ obs.seq0 = 0
    /\ Sequence = 0
    /\ obs.meta = 1
    /\ pc = "cold"

\* C33: both followers, for one Connect call: a request is sent only by the
\* goroutine at its start or in the select of its loop, with nothing of the
\* fetch before left to offer, so one request at most is in flight; while the
\* goroutine is blocked offering a Result to a full channel no request can be
\* sent, whatever ticks arrive.
C33_OneFetchAtATime ==
    /\ [][nFetch' # nFetch =>
             /\ nFetch' = nFetch + 1
             /\ pc \in {"start", "wait"}
             /\ pending = <<>>
             /\ pc' = "inflight"]_vars
    /\ [](pc = "inflight" => pending = <<>>)
    /\ []((pc = "offer" /\ Len(out) = ChanCap)
             => ~ENABLED (LoopStart \/ WaitTick))

\* the channel is full, the goroutine is blocked with the eleventh Result of
\* the batch, a tick is waiting, the context is live and another request is
\* within the bound
C33_Witness ==
    /\ pc = "offer"
    /\ Len(out) = ChanCap
    /\ pending # <<>>
    /\ tick
    /\ ~ctxDone
    /\ nFetch < MaxFetches

\* the place in the feed of an item that a poll returned
FeedIndex(item) ==
    CHOOSE i \in 1..MaxFeed :
        /\ FeedEntry(i).Title = item.Title
        /\ FeedEntry(i).PubDate = item.PubDate
        /\ FeedEntry(i).Creator = item.Creator

\* C31: RSS follower polling a feed that only grows, of items no two of which
\* Is each other, each answered poll getting the latest min(limit, length)
\* items newest first and no more than limit items appended between two polls
\* that returned without an error: the items the polls returned, in the order
\* they returned them, are in feed order without a repeat, and every item
\* appended after the first such poll and before the latest one was returned
\* exactly once.
C31_EveryNewItemOnceInOrder ==
    upstream = "feed" =>
        LET got == polled.items
            idx == [k \in 1..Len(got) |-> FeedIndex(got[k])]
        IN  /\ \A i, j \in 1..MaxFeed : i # j => ~Is(FeedEntry(i), FeedEntry(j))
            /\ \A j, k \in 1..Len(got) : j < k => ~Is(got[j], got[k])
            /\ \A j, k \in 1..Len(got) : j < k => idx[j] < idx[k]
            /\ polled.first # NoSeq =>
                  \A i \in (polled.first + 1)..polled.last :
                      Cardinality({k \in 1..Len(got) : idx[k] = i}) = 1

\* the first poll found a feed of one item; three items were appended over the
\* next two polls, limit of them before one of the two, and the polls have
\* returned the four items
C31_Witness ==
    /\ upstream = "feed"
    /\ polled.first = 1
    /\ polled.last = MaxFeed
    /\ nFetch = 3
    /\ Len(polled.items) = MaxFeed
    /\ pc = "wait"

====
